---- MODULE Spec2Model ----
(***************************************************************************)
(* Model of pyhtonProj/app.py ("Inspiration Station"): the Content Fetcher *)
(* (fetch_quote, fetch_image), the Compositor's outcome (process_image),   *)
(* and the Cycle Scheduler (timer, worker threads, marshalled hand-off).   *)
(***************************************************************************)
EXTENDS Integers, Sequences, FiniteSets, TLC

VARIABLES
    current_image,  \* DesktopApp.current_image: the frame the canvas shows
    running,        \* DesktopApp.running
    mainPc,         \* position of the interaction (main) thread
    timers,         \* pending root.after(UPDATE_INTERVAL_MS, trigger_update)
    afterQueue,     \* pending root.after(0, update_ui, x) callbacks, FIFO
    cycles,         \* one record per call of load_content
    started,        \* number of worker threads started by trigger_update
    writer,         \* thread that last assigned current_image
    canvas,         \* image items of self.canvas, oldest first (frame's cycle)
    fPc, fIn, fOut  \* harness for a single call of a Fetcher function

vars == <<current_image, running, mainPc, timers, afterQueue, cycles,
          started, writer, canvas, fPc, fIn, fOut>>

appVars == <<current_image, running, mainPc, timers, afterQueue, cycles,
             started, writer, canvas>>

fnVars == <<fPc, fIn, fOut>>

-----------------------------------------------------------------------------
(* Bounds *)

\* worker threads trigger_update may start in one run of the model
MaxStarts == 2

\* largest width and height of a decoded image
MaxDim == 12

\* most words in a quote text
MaxWords == 3

-----------------------------------------------------------------------------
(* Python values.  A str-or-None is [t, s]; a bytes-or-None is [t, b]. *)

Str(s) == [t |-> "str", s |-> s]

PyNone == [t |-> "None", s |-> ""]

Bytes(b) == [t |-> "bytes", b |-> b]

NoBytes == [t |-> "None", b |-> ""]

\* truthiness of `image_data` in `if image_data:`
TruthyBytes(d) == d.t = "bytes" /\ d.b # ""

-----------------------------------------------------------------------------
(* fetch_quote *)

ApiErrorQuote == <<Str("The beauty of the world lies in the details."), Str("Default")>>

OfflineQuote == <<Str("Stay focused and never give up."), Str("Offline Mode")>>

DefaultContent == Str("Inspiration allows us to do great things.")

DefaultAuthor == Str("Unknown")

QuoteKeys == {"quote", "content", "author"}

\* values a JSON object may hold under a key: null, "", or a text
FieldVals == {PyNone, Str(""), Str("Carpe diem."), Str("Seneca")}

JsonObjects ==
    {[kind |-> "obj", fields |-> f, items |-> <<>>] :
        f \in UNION {[K -> FieldVals] : K \in SUBSET QuoteKeys}}

\* a JSON value that is neither an object nor a list (string, number, null)
JsonScalar == [kind |-> "scalar", fields |-> <<>>, items |-> <<>>]

\* a body response.json() cannot parse
JsonInvalid == [kind |-> "invalid", fields |-> <<>>, items |-> <<>>]

JsonList(items) == [kind |-> "list", fields |-> <<>>, items |-> items]

JsonBodies ==
    JsonObjects \cup {JsonScalar, JsonInvalid, JsonList(<<>>), JsonList(<<JsonScalar>>)}
    \cup {JsonList(<<o>>) : o \in JsonObjects}

HttpStatuses == {200, 404, 500}

\* requests.get either raises (timeout, connection error) or returns a response
RequestFailed == [exc |-> TRUE, status |-> 0, body |-> JsonInvalid]

QuoteResponses ==
    {RequestFailed} \cup
    {[exc |-> FALSE, status |-> st, body |-> b] : st \in HttpStatuses, b \in JsonBodies}

\* dict.get(key, default)
DictGet(d, k, default) == IF k \in DOMAIN d.fields THEN d.fields[k] ELSE default

Raised == [raised |-> TRUE, ret |-> <<PyNone, PyNone>>]

Returned(pair) == [raised |-> FALSE, ret |-> pair]

\* lines 99-101, on a value `data` that must be a dict
QuoteFromData(data) ==
    IF data.kind # "obj" THEN Raised   \* AttributeError: no .get
    ELSE Returned(<<DictGet(data, "quote", DictGet(data, "content", DefaultContent)),
                    DictGet(data, "author", DefaultAuthor)>>)

\* the body of the try block, lines 91-104
FetchQuoteTry(resp) ==
    IF resp.exc THEN Raised
    ELSE IF resp.status = 200
         THEN IF resp.body.kind = "invalid" THEN Raised      \* response.json()
              ELSE IF resp.body.kind = "list"
                   THEN IF resp.body.items = <<>> THEN Raised \* IndexError
                        ELSE QuoteFromData(resp.body.items[1])
                   ELSE QuoteFromData(resp.body)
         ELSE Returned(ApiErrorQuote)

\* a handler that only expects the request itself to fail
FetchQuoteNarrowExcept(resp) ==
    IF resp.exc THEN Returned(OfflineQuote) ELSE FetchQuoteTry(resp)

\* a fetch_quote without its except clause
FetchQuoteRaises(resp) == FetchQuoteTry(resp)

\* fetch_quote: try block plus `except Exception`, lines 90-107
FetchQuote(resp) ==
    IF FetchQuoteTry(resp).raised THEN Returned(OfflineQuote) ELSE FetchQuoteTry(resp)

-----------------------------------------------------------------------------
(* fetch_image *)

PrimaryBytes == "loremflickr-jpeg"

SecondaryBytes == "picsum-jpeg"

GarbageBytes == "not-an-image"

ImageContents == {"", PrimaryBytes, SecondaryBytes, GarbageBytes}

ImageRequestFailed == [exc |-> TRUE, status |-> 0, content |-> ""]

ImageResponses ==
    {ImageRequestFailed} \cup
    {[exc |-> FALSE, status |-> st, content |-> b] : st \in HttpStatuses, b \in ImageContents}

ImageResult(raised, ret, requests) ==
    [raised |-> raised, ret |-> ret, requests |-> requests]

\* the body of the try block, lines 114-130, for the answers p of the
\* primary source and s of the secondary source; falling off the end of
\* the try block reaches `return None`
FetchImageTry(p, s) ==
    IF p.exc THEN ImageResult(TRUE, NoBytes, <<"primary">>)
    ELSE IF p.status = 200 THEN ImageResult(FALSE, Bytes(p.content), <<"primary">>)
    ELSE IF s.exc THEN ImageResult(TRUE, NoBytes, <<"primary", "secondary">>)
    ELSE IF s.status = 200 THEN ImageResult(FALSE, Bytes(s.content), <<"primary", "secondary">>)
    ELSE ImageResult(FALSE, NoBytes, <<"primary", "secondary">>)

\* fetch_image: try block, `except Exception`, `return None`, lines 109-135
FetchImage(p, s) ==
    IF FetchImageTry(p, s).raised
    THEN ImageResult(FALSE, NoBytes, FetchImageTry(p, s).requests)
    ELSE FetchImageTry(p, s)

-----------------------------------------------------------------------------
(* process_image, reduced to its outcome: a finished PhotoImage or None *)

NoFrame ==
    [t |-> "None", cycle |-> -1, text |-> PyNone, author |-> PyNone,
     src |-> "", drawn |-> "nothing"]

\* ImageTk.PhotoImage(img) of an img in drawing stage `drawn`, made by cycle c
PhotoImage(c, text, author, src, drawn) ==
    [t |-> "PhotoImage", cycle |-> c, text |-> text, author |-> author,
     src |-> src, drawn |-> drawn]

\* Image.open succeeds on the bytes the image sources serve
Decodable(d) == d.t = "bytes" /\ d.b \in {PrimaryBytes, SecondaryBytes}

\* exceptions Pillow or Tk may raise while drawing, whatever the inputs
ComposeEnvs == {"ok", "error"}

\* the try block of process_image, lines 143-265: `img` is the local image
\* in the state it had when the block ended
ProcessImageTry(c, image_data, text, author, env) ==
    IF ~Decodable(image_data)                     \* Image.open, line 144
    THEN [raised |-> TRUE, img |-> PhotoImage(c, text, author, image_data.b, "nothing")]
    ELSE IF text.t # "str"                        \* wrapper.wrap(text), line 218
    THEN [raised |-> TRUE, img |-> PhotoImage(c, text, author, image_data.b, "overlay")]
    ELSE IF author.t # "str"                      \* get_text_size(author), line 239
    THEN [raised |-> TRUE, img |-> PhotoImage(c, text, author, image_data.b, "overlay")]
    ELSE IF env = "error"                         \* draw.text, lines 250-263
    THEN [raised |-> TRUE, img |-> PhotoImage(c, text, author, image_data.b, "quote_only")]
    ELSE [raised |-> FALSE, img |-> PhotoImage(c, text, author, image_data.b, "complete")]

\* an except clause that returns what has been drawn so far
ProcessImageReturnsPartial(c, image_data, text, author, env) ==
    ProcessImageTry(c, image_data, text, author, env).img

\* process_image: the try block plus `except Exception: return None`
ProcessImage(c, image_data, text, author, env) ==
    IF ProcessImageTry(c, image_data, text, author, env).raised
    THEN NoFrame
    ELSE ProcessImageTry(c, image_data, text, author, env).img

-----------------------------------------------------------------------------
(* process_image, cover scaling and centre crop, lines 146-166 *)

WINDOW_WIDTH == 900

WINDOW_HEIGHT == 600

RECURSIVE Gcd(_, _)
Gcd(a, b) == IF b = 0 THEN a ELSE Gcd(b, a % b)

RECURSIVE IsPowerOfTwo(_)
IsPowerOfTwo(n) == IF n = 1 THEN TRUE ELSE IF n % 2 = 1 THEN FALSE ELSE IsPowerOfTwo(n \div 2)

\* img.width / img.height is an exact double iff the reduced denominator
\* is a power of two
RatioExact(w, h) == IsPowerOfTwo(h \div Gcd(w, h))

\* int(x) of a double x computed from img_ratio whose real value is
\* num / den: the floor, or one less when the real value is an integer and
\* the rounding of an inexact img_ratio left the double just below it
FloatTrunc(num, den, w, h) ==
    IF num % den = 0 /\ ~RatioExact(w, h)
    THEN {num \div den, (num \div den) - 1}
    ELSE {num \div den}

\* a scaling that fits the image inside the window (letterbox)
ScaledSizesContain(w, h) ==
    IF w * WINDOW_HEIGHT > WINDOW_WIDTH * h
    THEN {[new_width |-> WINDOW_WIDTH, new_height |-> y] :
              y \in FloatTrunc(WINDOW_WIDTH * h, w, w, h)}
    ELSE {[new_width |-> x, new_height |-> WINDOW_HEIGHT] :
              x \in FloatTrunc(WINDOW_HEIGHT * w, h, w, h)}

\* lines 147-157: the sizes (new_width, new_height) can take for a w x h image
ScaledSizes(w, h) ==
    IF w * WINDOW_HEIGHT > WINDOW_WIDTH * h          \* img_ratio > window_ratio
    THEN {[new_width |-> x, new_height |-> WINDOW_HEIGHT] :
              x \in FloatTrunc(WINDOW_HEIGHT * w, h, w, h)}
    ELSE {[new_width |-> WINDOW_WIDTH, new_height |-> y] :
              y \in FloatTrunc(WINDOW_WIDTH * h, w, w, h)}

\* round(n / 2) as Python rounds: halves go to the even neighbour
RoundHalf(n) ==
    IF n % 2 = 0 THEN n \div 2
    ELSE IF ((n - 1) \div 2) % 2 = 0 THEN (n - 1) \div 2 ELSE ((n - 1) \div 2) + 1

\* lines 162-166: the float box handed to img.crop, as Pillow rounds it
CropBox(new_width, new_height) ==
    [left   |-> RoundHalf(new_width - WINDOW_WIDTH),
     top    |-> RoundHalf(new_height - WINDOW_HEIGHT),
     right  |-> RoundHalf(new_width + WINDOW_WIDTH),
     bottom |-> RoundHalf(new_height + WINDOW_HEIGHT)]

\* lines 146-166 on a decoded w x h image
CoverCrop(w, h) ==
    {[new_width |-> sz.new_width, new_height |-> sz.new_height,
      box |-> CropBox(sz.new_width, sz.new_height)] : sz \in ScaledSizes(w, h)}

-----------------------------------------------------------------------------
(* process_image, font resolution, lines 176-207 *)

\* entries of font_candidates, lines 181-193
NumFontCandidates == 8

\* where a font object comes from: None, candidate i, or ImageFont.load_default()
NoFont == 0

DefaultFont == NumFontCandidates + 1

\* what the two truetype() calls of one loop pass do: the first raises
\* OSError, the first loads and the second raises, or both load
FontLoadOutcomes == {"fail", "large_only", "both"}

\* the for loop of lines 195-201 from candidate i on, font_large = fl and
\* font_small = fs so far
RECURSIVE FontLoop(_, _, _, _)
FontLoop(loads, i, fl, fs) ==
    IF i > NumFontCandidates THEN [font_large |-> fl, font_small |-> fs, tried |-> i - 1]
    ELSE IF loads[i] = "both" THEN [font_large |-> i, font_small |-> i, tried |-> i]
    ELSE IF loads[i] = "large_only" THEN FontLoop(loads, i + 1, i, fs)
    ELSE FontLoop(loads, i + 1, fl, fs)

\* lines 177-207: the fonts layout starts with
ResolveFonts(loads) ==
    LET r == FontLoop(loads, 1, NoFont, NoFont)
    IN IF r.font_large = NoFont
       THEN [r EXCEPT !.font_large = DefaultFont, !.font_small = DefaultFont]
       ELSE r

-----------------------------------------------------------------------------
(* process_image, text wrapping and vertical layout, lines 209-263 *)

AvgCharWidth == 18

\* max_chars, line 215
MaxChars == (WINDOW_WIDTH - 100) \div AvgCharWidth

\* a quote text is its words (their lengths), separated by single spaces
WordLens == {3, 20, 22, 45, 100}

Texts == UNION {[1 .. n -> WordLens] : n \in 0 .. MaxWords}

\* the chunks TextWrapper splits a text into: word i is [w |-> i, n |-> length],
\* a run of whitespace is [w |-> 0, n |-> 1]
RECURSIVE ChunksFrom(_, _)
ChunksFrom(text, i) ==
    IF i > Len(text) THEN <<>>
    ELSE IF i = Len(text) THEN << [w |-> i, n |-> text[i]] >>
    ELSE << [w |-> i, n |-> text[i]], [w |-> 0, n |-> 1] >> \o ChunksFrom(text, i + 1)

RECURSIVE LineLen(_)
LineLen(line) == IF line = <<>> THEN 0 ELSE Head(line).n + LineLen(Tail(line))

\* the inner while loop of TextWrapper._wrap_chunks: chunks that still fit
RECURSIVE TakeFitting(_, _)
TakeFitting(chunks, line) ==
    IF chunks # <<>> /\ LineLen(line) + Head(chunks).n <= MaxChars
    THEN TakeFitting(Tail(chunks), Append(line, Head(chunks)))
    ELSE [line |-> line, rest |-> chunks]

\* _handle_long_word with break_long_words=False: the word stays whole
HandleLongWordUnbroken(f) ==
    IF f.line = <<>>
    THEN [line |-> <<Head(f.rest)>>, rest |-> Tail(f.rest)]
    ELSE f

\* TextWrapper._handle_long_word with the default break_long_words=True:
\* the head of f.rest is cut to fill what is left of the current line
HandleLongWord(f) ==
    LET space_left == MaxChars - LineLen(f.line)
        chunk      == Head(f.rest)
    IN [line |-> Append(f.line, [w |-> chunk.w, n |-> space_left]),
        rest |-> <<[w |-> chunk.w, n |-> chunk.n - space_left]>> \o Tail(f.rest)]

\* cur_line[-1].strip() == '': whitespace or an empty piece
IsBlank(chunk) == chunk.w = 0 \/ chunk.n = 0

\* TextWrapper._wrap_chunks (drop_whitespace=True), one line per pass
RECURSIVE WrapChunks(_, _)
WrapChunks(chunks, lines) ==
    IF chunks = <<>> THEN lines
    ELSE LET c1   == IF IsBlank(Head(chunks)) /\ lines # <<>> THEN Tail(chunks) ELSE chunks
             f    == TakeFitting(c1, <<>>)
             g    == IF f.rest # <<>> /\ Head(f.rest).n > MaxChars THEN HandleLongWord(f) ELSE f
             line == IF g.line # <<>> /\ IsBlank(g.line[Len(g.line)])
                     THEN SubSeq(g.line, 1, Len(g.line) - 1) ELSE g.line
         IN WrapChunks(g.rest, IF line # <<>> THEN Append(lines, line) ELSE lines)

\* a wrapper that gives an empty text one empty line
WrapKeepsEmptyLine(text) ==
    IF text = <<>> THEN << <<[w |-> 0, n |-> 0]>> >> ELSE WrapChunks(ChunksFrom(text, 1), <<>>)

\* textwrap.TextWrapper(width=max_chars).wrap(text), lines 217-218
Wrap(text) == WrapChunks(ChunksFrom(text, 1), <<>>)

\* get_text_size(txt, font)[1], lines 226-231: the bounding box of an empty
\* string is empty, any other text is as high as the font's glyphs
TextHeight(len, glyph_height) == IF len = 0 THEN 0 ELSE glyph_height

RECURSIVE SumSeq(_)
SumSeq(q) == IF q = <<>> THEN 0 ELSE Head(q) + SumSeq(Tail(q))

\* lines 220-263 for the wrapped lines, an author of author_len characters and
\* fonts with glyph heights hl (large) and hs (small).  Ordinates are doubled
\* (y2 = 2 * y) because current_y is a float with halves.
Layout(text, author_len, hl, hs) ==
    LET text_lines   == Wrap(text)
        line_heights == [i \in DOMAIN text_lines |->
                            TextHeight(LineLen(text_lines[i]), hl) + 10]     \* line 235
        ah           == TextHeight(author_len, hs)                           \* line 239
        total_height == SumSeq(line_heights) + ah + 30                       \* lines 236, 240
        start_y2     == WINDOW_HEIGHT - total_height                         \* line 242
        author_y2    == start_y2 + 2 * SumSeq(line_heights) + 2 * 20         \* lines 254, 257
        auth_h       == TextHeight(2 + author_len, hs)                       \* line 259
    IN [text_lines |-> text_lines, line_heights |-> line_heights, ah |-> ah,
        total_height |-> total_height, start_y2 |-> start_y2,
        author_y2 |-> author_y2, auth_h |-> auth_h,
        bottom_y2 |-> author_y2 + 2 * auth_h]

-----------------------------------------------------------------------------
(* The answers the network gives to the cycles of the scheduler model *)

GoodQuoteBody ==
    [kind |-> "obj", items |-> <<>>,
     fields |-> [k \in {"quote", "author"} |->
                    IF k = "quote" THEN Str("Carpe diem.") ELSE Str("Seneca")]]

NullQuoteBody ==
    [kind |-> "obj", items |-> <<>>, fields |-> [k \in {"quote"} |-> PyNone]]

CycleQuoteResponses ==
    {RequestFailed,
     [exc |-> FALSE, status |-> 200, body |-> GoodQuoteBody],
     [exc |-> FALSE, status |-> 200, body |-> NullQuoteBody]}

ImageOk(b) == [exc |-> FALSE, status |-> 200, content |-> b]

ImageNotFound == [exc |-> FALSE, status |-> 404, content |-> ""]

\* <<answer of the primary source, answer of the secondary source>>
CycleImageResponses ==
    {<<ImageOk(PrimaryBytes), ImageOk(SecondaryBytes)>>,
     <<ImageOk(GarbageBytes), ImageOk(SecondaryBytes)>>,
     <<ImageRequestFailed, ImageOk(SecondaryBytes)>>}

-----------------------------------------------------------------------------
(* Cycle Scheduler *)

\* cycle 0 is the call of load_content in __init__ (line 53); cycle n > 0
\* is the n-th thread started by trigger_update (line 64)
Cycles == 0 .. MaxStarts

MainThread == "main"

WorkerThread == "worker"

NoThread == "none"

IdleCycle ==
    [pc |-> "idle", thread |-> NoThread, quote |-> <<PyNone, PyNone>>,
     image_data |-> NoBytes, final_image |-> NoFrame, log |-> <<>>,
     outcome |-> "none"]

\* a call of load_content about to execute line 71 on thread th
StartedCycle(th) == [IdleCycle EXCEPT !.pc = "fetch_quote", !.thread = th]

\* a load_content that composes as soon as the quote is there
LoadContentComposesEarly(pc, image_data) ==
    CASE pc = "fetch_quote"   -> "process_image"
      [] pc = "process_image" -> "marshal"
      [] OTHER                -> "done"

\* a load_content that hands off whether or not there is an image
LoadContentMarshalsAlways(pc, image_data) ==
    CASE pc = "fetch_quote"   -> "fetch_image"
      [] pc = "fetch_image"   -> IF TruthyBytes(image_data) THEN "process_image" ELSE "marshal"
      [] pc = "process_image" -> "marshal"
      [] OTHER                -> "done"

\* control flow of load_content, lines 71-83: the statement after `pc`
LoadContentNext(pc, image_data) ==
    CASE pc = "fetch_quote"   -> "fetch_image"
      [] pc = "fetch_image"   -> IF TruthyBytes(image_data) THEN "process_image" ELSE "done"
      [] pc = "process_image" -> "marshal"
      [] OTHER                -> "done"

\* the locals of load_content die with the call
Finish(cy, outcome) ==
    [cy EXCEPT !.pc = "done", !.outcome = outcome, !.quote = <<PyNone, PyNone>>,
               !.image_data = NoBytes, !.final_image = NoFrame]

\* `except Exception` of load_content, lines 85-86: logged, the call returns
LoadContentExcept(cy) == Finish(cy, "error")

\* the process is alive and cycle c's thread may take its next step
CanStep(c, pc) ==
    /\ mainPc # "exited"
    /\ cycles[c].pc = pc
    /\ cycles[c].thread = MainThread => mainPc = "init"

\* a schedule_next_update that gives up once a cycle has failed
ScheduleUnlessFailed(run, t) ==
    IF run /\ \A c \in Cycles : cycles[c].outcome \in {"none", "frame"} THEN t + 1 ELSE t

\* a schedule_next_update that waits for the cycles in flight
ScheduleWhenIdle(run, t) ==
    IF run /\ \A c \in Cycles : cycles[c].pc \in {"idle", "done"} THEN t + 1 ELSE t

\* schedule_next_update, lines 58-60: the timers pending after the call
ScheduleNextUpdate(run, t) == IF run THEN t + 1 ELSE t

\* root.after(0, self.update_ui, x) called by cycle c, line 81
\* a hand-off that assigns the frame on the calling thread
RootAfterAssigns(c, x) ==
    /\ current_image' = x
    /\ writer' = cycles[c].thread
    /\ UNCHANGED afterQueue

RootAfter(c, x) ==
    /\ afterQueue' = Append(afterQueue, [cycle |-> c, arg |-> x])
    /\ UNCHANGED <<current_image, writer>>

\* an update_ui without the `if photo_image:` test
UpdateUiUnguarded(photo_image) ==
    /\ current_image' = photo_image
    /\ writer' = MainThread
    /\ canvas' = Append(canvas, photo_image.cycle)

\* an update_ui that keeps the frame of the cycle started last
UpdateUiNewestOnly(photo_image) ==
    IF photo_image.t = "PhotoImage" /\ photo_image.cycle > current_image.cycle
    THEN /\ current_image' = photo_image
         /\ writer' = MainThread
         /\ canvas' = Append(canvas, photo_image.cycle)
    ELSE UNCHANGED <<current_image, writer, canvas>>

\* update_ui, lines 271-275: the assignment, then canvas.create_image adds
\* an item on top of the items already there
UpdateUiBody(photo_image) ==
    IF photo_image.t = "PhotoImage"
    THEN /\ current_image' = photo_image
         /\ writer' = MainThread
         /\ canvas' = Append(canvas, photo_image.cycle)
    ELSE UNCHANGED <<current_image, writer, canvas>>

Init ==
    /\ current_image = NoFrame
    /\ running = TRUE
    /\ mainPc = "init"
    /\ timers = 0
    /\ afterQueue = <<>>
    /\ cycles = [c \in Cycles |-> IF c = 0 THEN StartedCycle(MainThread) ELSE IdleCycle]
    /\ started = 0
    /\ writer = NoThread
    /\ canvas = <<>>
    /\ fPc = "off" /\ fIn = <<>> /\ fOut = <<>>

\* line 71
StepFetchQuote(c) ==
    /\ CanStep(c, "fetch_quote")
    /\ \E resp \in CycleQuoteResponses :
         LET r  == FetchQuote(resp)
             cy == [cycles[c] EXCEPT !.quote = r.ret,
                                     !.log = Append(@, "fetch_quote"),
                                     !.pc = LoadContentNext("fetch_quote", NoBytes)]
         IN cycles' = [cycles EXCEPT ![c] =
                         IF r.raised THEN LoadContentExcept(cy) ELSE cy]
    /\ UNCHANGED <<current_image, running, mainPc, timers, afterQueue, started, writer, canvas>>
    /\ UNCHANGED fnVars

\* line 74, and lines 82-83 when there is no image
StepFetchImage(c) ==
    /\ CanStep(c, "fetch_image")
    /\ \E ps \in CycleImageResponses :
         LET r    == FetchImage(ps[1], ps[2])
             data == r.ret
             cy   == [cycles[c] EXCEPT !.image_data = data,
                                       !.log = Append(@, "fetch_image"),
                                       !.pc = LoadContentNext("fetch_image", data)]
         IN cycles' = [cycles EXCEPT ![c] =
                         IF r.raised THEN LoadContentExcept(cy)
                         ELSE IF cy.pc = "done" THEN Finish(cy, "no_image")
                         ELSE cy]
    /\ UNCHANGED <<current_image, running, mainPc, timers, afterQueue, started, writer, canvas>>
    /\ UNCHANGED fnVars

\* line 78
StepProcessImage(c) ==
    /\ CanStep(c, "process_image")
    /\ \E env \in ComposeEnvs :
         cycles' = [cycles EXCEPT ![c] =
                      [@ EXCEPT !.final_image =
                                    ProcessImage(c, cycles[c].image_data,
                                                 cycles[c].quote[1], cycles[c].quote[2], env),
                                !.log = Append(@, "process_image"),
                                !.pc = LoadContentNext("process_image", cycles[c].image_data)]]
    /\ UNCHANGED <<current_image, running, mainPc, timers, afterQueue, started, writer, canvas>>
    /\ UNCHANGED fnVars

\* line 81
StepMarshal(c) ==
    /\ CanStep(c, "marshal")
    /\ RootAfter(c, cycles[c].final_image)
    /\ cycles' = [cycles EXCEPT ![c] =
                    Finish([@ EXCEPT !.log = Append(@, "marshal")],
                           IF cycles[c].final_image.t = "PhotoImage"
                           THEN "frame" ELSE "no_frame")]
    /\ UNCHANGED <<running, mainPc, timers, started, canvas>>
    /\ UNCHANGED fnVars

\* __init__ line 56 after the first load_content returned, then mainloop()
InitSchedule ==
    /\ mainPc = "init"
    /\ cycles[0].pc = "done"
    /\ timers' = ScheduleNextUpdate(running, timers)
    /\ mainPc' = "mainloop"
    /\ UNCHANGED <<current_image, running, afterQueue, cycles, started, writer, canvas>>
    /\ UNCHANGED fnVars

\* the timer fires: trigger_update, lines 62-65
TriggerUpdate ==
    /\ mainPc = "mainloop"
    /\ timers > 0
    /\ started < MaxStarts
    /\ started' = started + 1
    /\ cycles' = [cycles EXCEPT ![started + 1] = StartedCycle(WorkerThread)]
    /\ timers' = ScheduleNextUpdate(running, timers - 1)
    /\ UNCHANGED <<current_image, running, mainPc, afterQueue, writer, canvas>>
    /\ UNCHANGED fnVars

\* the event loop runs the oldest pending update_ui callback
UpdateUi ==
    /\ mainPc = "mainloop"
    /\ afterQueue # <<>>
    /\ UpdateUiBody(Head(afterQueue).arg)
    /\ afterQueue' = Tail(afterQueue)
    /\ UNCHANGED <<running, mainPc, timers, cycles, started>>
    /\ UNCHANGED fnVars

\* the window is closed or Ctrl-C arrives: mainloop returns or sys.exit()
\* runs (lines 283-285) and the daemon threads die with the process;
\* nothing assigns self.running
Shutdown ==
    /\ mainPc # "exited"
    /\ mainPc' = "exited"
    /\ UNCHANGED <<current_image, running, timers, afterQueue, cycles, started, writer, canvas>>
    /\ UNCHANGED fnVars

Next ==
    \/ \E c \in Cycles : StepFetchQuote(c)
    \/ \E c \in Cycles : StepFetchImage(c)
    \/ \E c \in Cycles : StepProcessImage(c)
    \/ \E c \in Cycles : StepMarshal(c)
    \/ InitSchedule
    \/ TriggerUpdate
    \/ UpdateUi
    \/ Shutdown

Spec == Init /\ [][Next]_vars

\* the Tk event loop runs every due timer, the OS schedules every thread,
\* and every network call is bounded by its timeout
LiveSpec ==
    /\ Spec
    /\ WF_vars(InitSchedule)
    /\ WF_vars(TriggerUpdate)
    /\ \A c \in Cycles :
         WF_vars(StepFetchQuote(c) \/ StepFetchImage(c) \/ StepProcessImage(c) \/ StepMarshal(c))

-----------------------------------------------------------------------------
(* One call of fetch_quote on an arbitrary answer of the quote source *)

InitQuote ==
    /\ current_image = NoFrame
    /\ running = TRUE
    /\ mainPc = "init"
    /\ timers = 0
    /\ afterQueue = <<>>
    /\ cycles = [c \in Cycles |-> IdleCycle]
    /\ started = 0
    /\ writer = NoThread
    /\ canvas = <<>>
    /\ fPc = "quote_ready"
    /\ fIn \in QuoteResponses
    /\ fOut = Raised

CallFetchQuote ==
    /\ fPc = "quote_ready"
    /\ fOut' = FetchQuote(fIn)
    /\ fPc' = "quote_returned"
    /\ UNCHANGED fIn
    /\ UNCHANGED appVars

NextQuote == CallFetchQuote

SpecQuote == InitQuote /\ [][NextQuote]_vars

(* One call of fetch_image on arbitrary answers of the two image sources *)

InitImage ==
    /\ current_image = NoFrame
    /\ running = TRUE
    /\ mainPc = "init"
    /\ timers = 0
    /\ afterQueue = <<>>
    /\ cycles = [c \in Cycles |-> IdleCycle]
    /\ started = 0
    /\ writer = NoThread
    /\ canvas = <<>>
    /\ fPc = "image_ready"
    /\ fIn \in ImageResponses \X ImageResponses
    /\ fOut = ImageResult(TRUE, NoBytes, <<>>)

CallFetchImage ==
    /\ fPc = "image_ready"
    /\ fOut' = FetchImage(fIn[1], fIn[2])
    /\ fPc' = "image_returned"
    /\ UNCHANGED fIn
    /\ UNCHANGED appVars

NextImage == CallFetchImage

SpecImage == InitImage /\ [][NextImage]_vars

(* Cover scaling and crop of one decoded image of arbitrary size *)

InitCover ==
    /\ current_image = NoFrame
    /\ running = TRUE
    /\ mainPc = "init"
    /\ timers = 0
    /\ afterQueue = <<>>
    /\ cycles = [c \in Cycles |-> IdleCycle]
    /\ started = 0
    /\ writer = NoThread
    /\ canvas = <<>>
    /\ fPc = "cover_ready"
    /\ fIn \in (1 .. MaxDim) \X (1 .. MaxDim)
    /\ fOut = [new_width |-> 0, new_height |-> 0, box |-> CropBox(0, 0)]

CallCoverCrop ==
    /\ fPc = "cover_ready"
    /\ fOut' \in CoverCrop(fIn[1], fIn[2])
    /\ fPc' = "cover_returned"
    /\ UNCHANGED fIn
    /\ UNCHANGED appVars

NextCover == CallCoverCrop

SpecCover == InitCover /\ [][NextCover]_vars

(* Font resolution under arbitrary outcomes of the load attempts *)

InitFonts ==
    /\ current_image = NoFrame
    /\ running = TRUE
    /\ mainPc = "init"
    /\ timers = 0
    /\ afterQueue = <<>>
    /\ cycles = [c \in Cycles |-> IdleCycle]
    /\ started = 0
    /\ writer = NoThread
    /\ canvas = <<>>
    /\ fPc = "fonts_ready"
    /\ fIn \in [1 .. NumFontCandidates -> FontLoadOutcomes]
    /\ fOut = [font_large |-> NoFont, font_small |-> NoFont, tried |-> 0]

CallResolveFonts ==
    /\ fPc = "fonts_ready"
    /\ fOut' = ResolveFonts(fIn)
    /\ fPc' = "fonts_returned"
    /\ UNCHANGED fIn
    /\ UNCHANGED appVars

NextFonts == CallResolveFonts

SpecFonts == InitFonts /\ [][NextFonts]_vars

(* Wrapping and layout of one quote *)

AuthorLens == {0, 6}

LargeGlyphHeights == {27, 34}

SmallGlyphHeights == {18, 23}

InitLayout ==
    /\ current_image = NoFrame
    /\ running = TRUE
    /\ mainPc = "init"
    /\ timers = 0
    /\ afterQueue = <<>>
    /\ cycles = [c \in Cycles |-> IdleCycle]
    /\ started = 0
    /\ writer = NoThread
    /\ canvas = <<>>
    /\ fPc = "layout_ready"
    /\ fIn \in [text : Texts, author_len : AuthorLens,
                hl : LargeGlyphHeights, hs : SmallGlyphHeights]
    /\ fOut = Layout(<<>>, 0, 0, 0)

CallLayout ==
    /\ fPc = "layout_ready"
    /\ fOut' = Layout(fIn.text, fIn.author_len, fIn.hl, fIn.hs)
    /\ fPc' = "layout_returned"
    /\ UNCHANGED fIn
    /\ UNCHANGED appVars

NextLayout == CallLayout

SpecLayout == InitLayout /\ [][NextLayout]_vars

-----------------------------------------------------------------------------
(* Properties *)

IsCompleteFrame(f) ==
    /\ f.t = "PhotoImage"
    /\ f.drawn = "complete"
    /\ f.cycle \in Cycles

InFlight == {c \in Cycles : cycles[c].pc \notin {"idle", "done"}}

Ops(log) == {log[j] : j \in DOMAIN log}

OpsBefore(log, i) == {log[j] : j \in 1 .. (i - 1)}

\* C1: in every reachable state, overlapping cycles included, current_image
\* is the initial empty value or a complete frame returned by a successful
\* composition, and every change of current_image installs such a frame taken
\* from the head of the hand-off queue: a cycle that failed changes nothing.
C1_DisplayedFrameComplete ==
    /\ [](current_image = NoFrame \/ IsCompleteFrame(current_image))
    /\ [][current_image' # current_image =>
            /\ IsCompleteFrame(current_image')
            /\ "process_image" \in Ops(cycles[current_image'.cycle].log)
            /\ cycles[current_image'.cycle].outcome = "frame"]_vars

\* the frame of cycle 1 stays on screen after cycle 0 ended without an image
\* and the failed composition of cycle 2 was handed to update_ui
C1_Witness ==
    /\ IsCompleteFrame(current_image)
    /\ current_image.cycle = 1
    /\ cycles[0].outcome = "no_image"
    /\ cycles[2].outcome = "no_frame"
    /\ afterQueue = <<>>

\* C2: the fetch steps and the compose step of every cycle, the cycle run at
\* startup included, execute on a worker thread, never on the interaction
\* thread.
C2_FetchComposeOffMainThread ==
    \A c \in Cycles :
        (\E i \in DOMAIN cycles[c].log :
            cycles[c].log[i] \in {"fetch_quote", "fetch_image", "process_image"})
        => cycles[c].thread = WorkerThread

\* C3: current_image is written only by update_ui running on the interaction
\* thread in the event loop; no worker thread writes it.
C3_OnlyUpdateUiWrites ==
    /\ [](writer \in {NoThread, MainThread})
    /\ [][current_image' # current_image =>
            /\ mainPc = "mainloop"
            /\ afterQueue # <<>>
            /\ afterQueue' = Tail(afterQueue)
            /\ current_image' = Head(afterQueue).arg
            /\ writer' = MainThread
            /\ cycles' = cycles]_vars

\* a frame composed by a worker thread is on screen, written by the main thread
C3_Witness ==
    /\ current_image.t = "PhotoImage"
    /\ cycles[current_image.cycle].thread = WorkerThread
    /\ writer = MainThread
    /\ InFlight # {}

\* C4: within each cycle both fetches are complete before compose begins and
\* compose is complete before the hand-off is marshalled.
C4_FetchComposeHandoffOrder ==
    \A c \in Cycles :
        \A i \in DOMAIN cycles[c].log :
            /\ cycles[c].log[i] = "process_image" =>
                  {"fetch_quote", "fetch_image"} \subseteq OpsBefore(cycles[c].log, i)
            /\ cycles[c].log[i] = "marshal" =>
                  "process_image" \in OpsBefore(cycles[c].log, i)
            /\ cycles[c].log[i] = "fetch_image" =>
                  OpsBefore(cycles[c].log, i) = {"fetch_quote"}

\* a cycle has handed off while another one is still fetching
C4_Witness ==
    \E c, d \in Cycles :
        /\ cycles[c].log = <<"fetch_quote", "fetch_image", "process_image", "marshal">>
        /\ cycles[d].log = <<"fetch_quote">>
        /\ d < c

\* C5: every timer fire while running is set starts exactly one new cycle on
\* a worker thread and leaves a timer armed, whatever cycles are in flight,
\* and a due timer can fire whatever cycles are in flight (up to the model's
\* cap on started threads).
C5_TimerFireSpawnsAndRearms ==
    /\ [](mainPc = "mainloop" /\ timers > 0 /\ started < MaxStarts => ENABLED TriggerUpdate)
    /\ [][TriggerUpdate /\ running =>
            /\ started' = started + 1
            /\ \E n \in Cycles :
                 /\ cycles[n].pc = "idle"
                 /\ cycles'[n].pc = "fetch_quote"
                 /\ cycles'[n].thread = WorkerThread
                 /\ \A c \in Cycles \ {n} : cycles'[c] = cycles[c]
            /\ timers' = timers
            /\ timers' > 0]_vars

\* every worker thread the model allows is in flight at once, timer armed
C5_Witness ==
    /\ Cardinality({c \in InFlight : cycles[c].thread = WorkerThread}) = MaxStarts
    /\ MaxStarts >= 2
    /\ timers > 0

\* C6: no step of a cycle, failing or not, touches the timers, the running
\* flag or the main loop, and while the process lives every timer fire is
\* followed by another one (up to the model's cap on started threads).
C6_RefreshSurvivesFailures ==
    /\ [][(cycles' # cycles /\ started' = started) =>
            (timers' = timers /\ running' = running /\ mainPc' = mainPc)]_vars
    /\ \A n \in 0 .. (MaxStarts - 1) :
         (started = n) ~> (started = n + 1 \/ mainPc = "exited")

\* the timer fires again although both earlier cycles ended in failure
C6_Witness ==
    /\ cycles[0].outcome = "no_image"
    /\ cycles[1].outcome = "no_frame"
    /\ cycles[2].pc = "fetch_quote"
    /\ timers > 0

\* C7: at process shutdown the running flag is cleared; once it is cleared
\* no further timer is armed; cycles in flight are not cancelled.
C7_ShutdownClearsRunning ==
    /\ [](mainPc = "exited" => ~running)
    /\ [][~running => timers' <= timers]_vars
    /\ [][mainPc' = "exited" => cycles' = cycles]_vars

BodyUnusable(body) ==
    \/ body.kind \in {"invalid", "scalar"}
    \/ body.kind = "list" /\ (body.items = <<>> \/ body.items[1].kind # "obj")

\* C8: fetch_quote never raises; a non-200 answer gives exactly the "API
\* error" pair; a failed request or an unusable body (invalid JSON, empty
\* list, non-object) gives exactly the "offline" pair; the pairs differ.
C8_FetchQuoteFallbacks ==
    fPc = "quote_returned" =>
        /\ ~fOut.raised
        /\ (~fIn.exc /\ fIn.status # 200) =>
              fOut.ret = <<Str("The beauty of the world lies in the details."),
                           Str("Default")>>
        /\ (fIn.exc \/ (fIn.status = 200 /\ BodyUnusable(fIn.body))) =>
              fOut.ret = <<Str("Stay focused and never give up."), Str("Offline Mode")>>
        /\ ApiErrorQuote # OfflineQuote
        /\ ApiErrorQuote[1] # OfflineQuote[1] /\ ApiErrorQuote[2] # OfflineQuote[2]

\* a 200 answer whose body is an empty JSON list came back as the offline pair
C8_Witness ==
    /\ fPc = "quote_returned"
    /\ ~fIn.exc /\ fIn.status = 200
    /\ fIn.body = JsonList(<<>>)
    /\ fOut.ret = OfflineQuote

ImageFailed(r) == r.exc \/ r.status # 200

\* C9: fetch_image tries the secondary source whenever the primary attempt
\* ends in a non-200 status or in an error, returns the bytes of the first
\* source that answers 200, returns absent only when both attempts failed,
\* and never raises.
C9_FetchImageFallback ==
    fPc = "image_returned" =>
        /\ ~fOut.raised
        /\ ImageFailed(fIn[1]) => fOut.requests = <<"primary", "secondary">>
        /\ ~ImageFailed(fIn[1]) => fOut.ret = Bytes(fIn[1].content)
        /\ (ImageFailed(fIn[1]) /\ ~ImageFailed(fIn[2])) => fOut.ret = Bytes(fIn[2].content)
        /\ fOut.ret = NoBytes => (ImageFailed(fIn[1]) /\ ImageFailed(fIn[2]))

\* C10: every quote fetch_quote returns has a non-empty text string and a
\* non-empty author string, whatever the quote source answered.
C10_QuoteNonEmpty ==
    fPc = "quote_returned" =>
        \A i \in 1 .. 2 : fOut.ret[i].t = "str" /\ fOut.ret[i].s # ""

\* C11: for every decoded image with width >= 1 and height >= 1 the scaled
\* size is at least the canvas on both axes (height-fitted when the image is
\* proportionally wider than the canvas, else width-fitted, truncated), and
\* the centred crop box lies inside the scaled image and is exactly
\* canvas-sized.
C11_CoverCropExact ==
    fPc = "cover_returned" =>
        /\ fOut.new_width >= 900 /\ fOut.new_height >= 600
        /\ IF 2 * fIn[1] > 3 * fIn[2]
           THEN /\ fOut.new_height = 600
                /\ fOut.new_width * fIn[2] <= 600 * fIn[1]
                /\ (fOut.new_width + 2) * fIn[2] > 600 * fIn[1]
           ELSE /\ fOut.new_width = 900
                /\ fOut.new_height * fIn[1] <= 900 * fIn[2]
                /\ (fOut.new_height + 2) * fIn[1] > 900 * fIn[2]
        /\ 0 <= fOut.box.left /\ fOut.box.right <= fOut.new_width
        /\ 0 <= fOut.box.top /\ fOut.box.bottom <= fOut.new_height
        /\ fOut.box.right - fOut.box.left = 900
        /\ fOut.box.bottom - fOut.box.top = 600

\* a 4 x 3 image is scaled to 900 x 675: the crop midpoints are half pixels
C11_Witness ==
    /\ fPc = "cover_returned"
    /\ fIn = <<4, 3>>
    /\ fOut.new_height = 675
    /\ fOut.box.top = 38 /\ fOut.box.bottom = 638

FullyLoading(loads) == {i \in DOMAIN loads : loads[i] = "both"}

\* C12: the candidates are tried in list order up to the first one that
\* loads; if none loads the built-in default is used; whichever load
\* attempts fail, the large and the small font come from the same source
\* and both are resolved before layout begins.
C12_FontSetSameSource ==
    fPc = "fonts_returned" =>
        /\ FullyLoading(fIn) # {} =>
              /\ fOut.tried = CHOOSE i \in FullyLoading(fIn) :
                                 \A j \in FullyLoading(fIn) : i <= j
              /\ fOut.font_large = fOut.tried
        /\ FullyLoading(fIn) = {} =>
              /\ fOut.tried = NumFontCandidates
              /\ fOut.font_large = DefaultFont
        /\ fOut.font_large # NoFont /\ fOut.font_small # NoFont
        /\ fOut.font_small = fOut.font_large

\* the non-empty pieces of word k in the wrapped lines, as <<line, position>>
Pieces(lines, k) ==
    {ij \in UNION {{<<i, j>> : j \in DOMAIN lines[i]} : i \in DOMAIN lines} :
        lines[ij[1]][ij[2]].w = k /\ lines[ij[1]][ij[2]].n > 0}

RECURSIVE SumPieces(_, _)
SumPieces(lines, ps) ==
    IF ps = {} THEN 0
    ELSE LET ij == CHOOSE x \in ps : TRUE
         IN lines[ij[1]][ij[2]].n + SumPieces(lines, ps \ {ij})

WordsOnLine(line) == {line[j].w : j \in DOMAIN line} \ {0}

C17_EmptyTextOneEmptyLine ==
    (fPc = "layout_returned" /\ fIn.text = <<>>) =>
        /\ Len(fOut.text_lines) = 1
        /\ LineLen(fOut.text_lines[1]) = 0
        /\ fOut.total_height = fOut.ah

\* C17 amended: for a zero-length quote text layout does not fail, wrapping
\* produces no line at all, and the total block height is the author's
\* measured height plus the 30 pixels added before the author.
C17_EmptyTextNoLine ==
    (fPc = "layout_returned" /\ fIn.text = <<>>) =>
        /\ fOut.text_lines = <<>>
        /\ fOut.line_heights = <<>>
        /\ fOut.total_height = (IF fIn.author_len = 0 THEN 0 ELSE fIn.hs) + 30
        /\ fOut.author_y2 = fOut.start_y2 + 40
        /\ ProcessImage(0, Bytes(PrimaryBytes), Str(""), Str("Seneca"), "ok").t = "PhotoImage"

\* an empty quote with an author of six characters in a 23-pixel font
C17_Witness ==
    /\ fPc = "layout_returned"
    /\ fIn.text = <<>>
    /\ fIn.author_len = 6 /\ fIn.hs = 23
    /\ fOut.total_height = 53

\* C18: the total block height that positions the block equals the extent
\* the drawing occupies (line heights with padding, the gap applied before
\* the author, the author line as drawn), so the space above the first quote
\* line equals the space below the author line.
C18_BlockVerticallyCentred ==
    fPc = "layout_returned" =>
        /\ fOut.total_height = SumSeq(fOut.line_heights) + 20 + fOut.auth_h
        /\ fOut.start_y2 = 2 * 600 - fOut.bottom_y2

\* C13: each hand-off replaces what the Display Sink showed: once a frame
\* is shown the canvas holds exactly one image, the latest, and superseded
\* frames do not accumulate.
C13_CanvasHoldsOneImage ==
    current_image.t = "PhotoImage" => canvas = <<current_image.cycle>>

\* C14 as stated: a cycle marshals a call to update_ui only when composition
\* returned a complete frame; a cycle whose image fetch or composition
\* returned absent makes no call.
C14_MarshalOnlyCompleteFrame ==
    /\ \A i \in DOMAIN afterQueue : IsCompleteFrame(afterQueue[i].arg)
    /\ \A c \in Cycles :
         cycles[c].outcome \in {"no_image", "no_frame", "error"}
            => "marshal" \notin Ops(cycles[c].log)

\* C14 amended: a cycle marshals update_ui with the result of composition,
\* a complete frame or absent, whenever image fetch returned non-empty
\* bytes; when image fetch returned absent it makes no call; update_ui
\* ignores an absent argument.
C14_MarshalWheneverImage ==
    /\ [](\A i \in DOMAIN afterQueue :
            /\ afterQueue[i].arg = NoFrame \/ IsCompleteFrame(afterQueue[i].arg)
            /\ "process_image" \in Ops(cycles[afterQueue[i].cycle].log))
    /\ [](\A c \in Cycles :
            (cycles[c].pc = "done" /\ "process_image" \in Ops(cycles[c].log))
               => "marshal" \in Ops(cycles[c].log))
    /\ [][\A c \in Cycles :
            (cycles[c].pc = "fetch_image" /\ cycles'[c].pc # "fetch_image") =>
                IF TruthyBytes(cycles'[c].image_data)
                THEN cycles'[c].pc = "process_image"
                ELSE cycles'[c].pc = "done" /\ afterQueue' = afterQueue]_vars
    /\ [][(afterQueue # <<>> /\ afterQueue' = Tail(afterQueue)
             /\ Head(afterQueue).arg = NoFrame)
            => (current_image' = current_image /\ canvas' = canvas)]_vars

\* the absent result of a failed composition waits in the hand-off queue
\* while an earlier frame is on screen
C14_Witness ==
    /\ current_image.t = "PhotoImage"
    /\ \E i \in DOMAIN afterQueue :
         /\ afterQueue[i].arg = NoFrame
         /\ cycles[afterQueue[i].cycle].outcome = "no_frame"

\* C15: the displayed frame is the one of the hand-off that arrived last,
\* hand-offs being run in arrival order, whatever the start order of their
\* cycles.
C15_LastArrivalShown ==
    /\ [](canvas # <<>> => current_image.cycle = canvas[Len(canvas)])
    /\ [][afterQueue' # afterQueue =>
            \/ afterQueue # <<>> /\ afterQueue' = Tail(afterQueue)
            \/ /\ Len(afterQueue') = Len(afterQueue) + 1
               /\ SubSeq(afterQueue', 1, Len(afterQueue)) = afterQueue]_vars
    /\ [][(afterQueue # <<>> /\ afterQueue' = Tail(afterQueue)
             /\ Head(afterQueue).arg.t = "PhotoImage")
            => current_image' = Head(afterQueue).arg]_vars

\* the frame on screen belongs to a cycle started before the cycle whose
\* frame it replaced
C15_Witness ==
    /\ current_image.t = "PhotoImage"
    /\ \E i, j \in DOMAIN canvas :
         /\ i < j /\ j = Len(canvas)
         /\ canvas[i] > canvas[j]
         /\ canvas[j] = current_image.cycle

\* C19: after startup, while running is set, exactly one refresh timer is
\* pending, however many timers have fired and cycles are in flight; none is
\* pending before the first schedule_next_update.
C19_ExactlyOneTimer ==
    /\ (mainPc = "mainloop" /\ running) => timers = 1
    /\ mainPc = "init" => timers = 0

\* every timer the model allows has fired, two cycles are in flight, and
\* one timer is pending
C19_Witness ==
    /\ mainPc = "mainloop"
    /\ started = MaxStarts
    /\ Cardinality(InFlight) >= 2
    /\ timers = 1

\* C20: a cycle never ends at fetch_quote; a frame is composed from the pair
\* fetch_quote returned (the fallback pair when the fetch failed) and is then
\* handed off; a cycle without image ends before compose and drops its quote.
C20_QuoteFailureStillRefreshes ==
    /\ [](\A c \in Cycles :
            /\ ~(cycles[c].pc = "done" /\ cycles[c].log = <<"fetch_quote">>)
            /\ cycles[c].outcome = "no_image" =>
                 /\ cycles[c].log = <<"fetch_quote", "fetch_image">>
                 /\ cycles[c].quote = <<PyNone, PyNone>>)
    /\ [][\A c \in Cycles :
            (cycles[c].pc = "process_image" /\ cycles'[c].pc # "process_image"
               /\ cycles'[c].final_image.t = "PhotoImage") =>
                /\ cycles'[c].final_image.text = cycles[c].quote[1]
                /\ cycles'[c].final_image.author = cycles[c].quote[2]]_vars
    /\ [][\A c \in Cycles :
            (cycles[c].pc = "marshal" /\ cycles'[c].pc = "done") =>
                afterQueue' = Append(afterQueue,
                                     [cycle |-> c, arg |-> cycles[c].final_image])]_vars

\* a frame carrying the offline fallback pair is on screen
C20_Witness ==
    /\ IsCompleteFrame(current_image)
    /\ current_image.text = Str("Stay focused and never give up.")
    /\ current_image.author = Str("Offline Mode")
    /\ \E c \in Cycles : cycles[c].outcome = "no_image"

====
